---- MODULE Spec2Model ----
(***************************************************************************)
(* Model of scripts/update.py of the SASE dashboard: the batch pipeline    *)
(* main (baixar_excel_google_drive, processar_dados, gerar_html) and the   *)
(* script embedded in the generated page (preencherFiltros,                *)
(* aplicarFiltros, limparFiltros, atualizarDashboard and its four steps).  *)
(*                                                                         *)
(* Money is modelled as integers (the code uses floats); percentages are   *)
(* held in hundredths, rounded from the exact quotient.                    *)
(***************************************************************************)
EXTENDS Integers, Sequences, FiniteSets, TLC

VARIABLES
    drive,          \* the upstream: "ok", "unavailable" or "malformed" workbook
    table,          \* rows of sheet 'Página1' of the Drive file (the input)
    pc,             \* position of main: start, downloaded, processed, done, error
    file_content,   \* what baixar_excel_google_drive returned
    data_json,      \* what processar_dados returned
    dashboard,      \* the file dashboard.html
    exit_code,      \* process exit status of main
    allData,        \* page: const allData (the embedded snapshot)
    filteredData,   \* page: let filteredData
    controls,       \* page: the three filter controls and their options
    rendered,       \* page: what the widgets show
    uncaught,       \* page: the exception that ended the last handler, "" if none
    exame_in,       \* argument of a call of categorizar_modalidade
    modalidade_out  \* its result

batchVars == <<drive, table, pc, file_content, data_json, dashboard, exit_code>>
pageVars == <<allData, filteredData, controls, rendered, uncaught>>
classVars == <<exame_in, modalidade_out>>
vars == <<batchVars, pageVars, classVars>>

(***************************************************************************)
(* Bounds                                                                  *)
(***************************************************************************)
MaxRows == 2
MaxFrags == 3

(***************************************************************************)
(* Cells of the sheet.  An empty cell is read as NaN (NULL here).          *)
(***************************************************************************)
NULL == "<NaN>"
HeaderLabel == "Nome do Paciente"

NumCell(n) == [t |-> "num", n |-> n]
TextCell == [t |-> "text", n |-> 0]
EmptyCell == [t |-> "empty", n |-> 0]
DateCell(y, m) == [t |-> "date", n |-> y * 12 + (m - 1)]

\* pd.to_numeric(errors='coerce'): a number, or NaN
NaN == [nan |-> TRUE, v |-> 0]
Num(n) == [nan |-> FALSE, v |-> n]
to_numeric(c) == IF c.t = "num" THEN Num(c.n) ELSE NaN

\* pd.to_datetime(errors='coerce'): a date, or NaT
NaT == [nat |-> TRUE, y |-> 0, m |-> 0]
to_datetime(c) ==
    IF c.t = "date" THEN [nat |-> FALSE, y |-> c.n \div 12, m |-> (c.n % 12) + 1]
    ELSE NaT

\* .dt.to_period('M').astype(str): 'YYYY-MM', and the string 'NaT' for NaT
Ano_Mes(d) ==
    IF d.nat THEN "NaT"
    ELSE ToString(d.y) \o "-" \o (IF d.m < 10 THEN "0" ELSE "") \o ToString(d.m)

isna(x) == x = NULL
notna(x) == x # NULL

(***************************************************************************)
(* Text of an exam description, as a sequence of characters.               *)
(***************************************************************************)
LowerCase == <<"a","b","c","d","e","f","g","h","i","j","k","l","m",
               "n","o","p","q","r","s","t","u","v","w","x","y","z">>
UpperCase == <<"A","B","C","D","E","F","G","H","I","J","K","L","M",
               "N","O","P","Q","R","S","T","U","V","W","X","Y","Z">>

upper(s) ==
    [i \in DOMAIN s |->
        IF \E k \in DOMAIN LowerCase : LowerCase[k] = s[i]
        THEN UpperCase[CHOOSE k \in DOMAIN LowerCase : LowerCase[k] = s[i]]
        ELSE s[i]]

\* Python's  chave in exame_upper
In(chave, s) ==
    \E i \in 1..(Len(s) - Len(chave) + 1) : SubSeq(s, i, i + Len(chave) - 1) = chave

W_MAMOGRAFIA == <<"M","A","M","O","G","R","A","F","I","A">>
W_DENSITOMETRIA == <<"D","E","N","S","I","T","O","M","E","T","R","I","A">>
W_ULTRASSONOGRAFIA == <<"U","L","T","R","A","S","S","O","N","O","G","R","A","F","I","A">>
W_ULTRASSOM == <<"U","L","T","R","A","S","S","O","M">>
W_RAIO == <<"R","A","I","O">>
W_X == <<"X">>
W_RX == <<"R","X">>
W_DOPPLER == <<"D","O","P","P","L","E","R">>
W_VASCULAR == <<"V","A","S","C","U","L","A","R">>
W_ECO == <<"E","C","O">>
W_SP == <<" ">>
W_HYPHEN == <<"-">>
W_mamografia == <<"m","a","m","o","g","r","a","f","i","a">>

\* The dict modalidades, in insertion order
modalidades ==
    << [chave |-> W_MAMOGRAFIA,                    valor |-> "Mamografia"],
       [chave |-> W_DENSITOMETRIA,                 valor |-> "Densitometria"],
       [chave |-> W_ULTRASSONOGRAFIA,              valor |-> "Ultrassonografia"],
       [chave |-> W_ULTRASSOM,                     valor |-> "Ultrassonografia"],
       [chave |-> W_RAIO \o W_SP \o W_X,           valor |-> "Raio X"],
       [chave |-> W_RAIO \o W_HYPHEN \o W_X,       valor |-> "Raio X"],
       [chave |-> W_RX,                            valor |-> "Raio X"],
       [chave |-> W_DOPPLER,                       valor |-> "Doppler"],
       [chave |-> W_DOPPLER \o W_SP \o W_VASCULAR, valor |-> "Doppler"],
       [chave |-> W_ECO \o W_DOPPLER,              valor |-> "Doppler"] >>

\* An exam cell: empty (NaN) or text
ExameNaN == [na |-> TRUE, s |-> <<>>]
Exame(s) == [na |-> FALSE, s |-> s]

RECURSIVE ScanRules(_, _, _)
\* the for loop over rules.items(): the first rule whose key occurs wins
ScanRules(rules, exame_upper, i) ==
    IF i > Len(rules) THEN "Outros"
    ELSE IF In(rules[i].chave, exame_upper) THEN rules[i].valor
    ELSE ScanRules(rules, exame_upper, i + 1)

RECURSIVE ScanRulesLast(_, _, _)
\* a faulty variant of the loop: the last matching rule wins
ScanRulesLast(rules, exame_upper, i) ==
    IF i > Len(rules) THEN "Outros"
    ELSE LET rest == ScanRulesLast(rules, exame_upper, i + 1)
         IN  IF rest # "Outros" THEN rest
             ELSE IF In(rules[i].chave, exame_upper) THEN rules[i].valor
             ELSE "Outros"

categorizar_modalidade_last(exame) ==
    IF exame.na THEN "Outros" ELSE ScanRulesLast(modalidades, upper(exame.s), 1)

categorizar_modalidade(exame) ==
    IF exame.na THEN "Outros" ELSE ScanRules(modalidades, upper(exame.s), 1)

(***************************************************************************)
(* The input rows.  Columns Taxa_Cartao, Percentual_SASE and               *)
(* Percentual_Medico are converted but never read, and are left out.       *)
(***************************************************************************)
Row(p, d, c, e, v, r) ==
    [Nome_Paciente |-> p, Data_Realizacao |-> d, Convenio |-> c,
     Exame_Realizado |-> e, Valor_Exame |-> v, RDF |-> r]

D_ULTRASSOM_ABDOME == Exame(W_ULTRASSOM \o W_SP \o <<"A","B","D","O","M","E">>)
D_RX_DOPPLER == Exame(W_RX \o W_SP \o W_DOPPLER)
D_MAMOGRAFIA_BILATERAL ==
    Exame(W_MAMOGRAFIA \o W_SP \o <<"B","I","L","A","T","E","R","A","L">>)
D_consulta == Exame(<<"c","o","n","s","u","l","t","a">>)

Jan == DateCell(2024, 1)
Feb == DateCell(2024, 2)

RowSet ==
    { Row("Ana",  Jan,      "InsCo",    D_ULTRASSOM_ABDOME,     NumCell(200), NumCell(180)),
      Row("Bia",  Jan,      "CORTESIA", D_RX_DOPPLER,           NumCell(0),   NumCell(0)),
      Row("Caio", Feb,      "InsCo",    D_consulta,             NumCell(800), NumCell(1)),
      \* unparsable date
      Row("Ana",  TextCell, "InsCo",    D_MAMOGRAFIA_BILATERAL, NumCell(200), NumCell(180)),
      \* a repeated header row
      Row(HeaderLabel, TextCell, "Convênio", Exame(<<"E","x","a","m","e">>), TextCell, TextCell),
      \* blank payer
      Row("Ana",  Jan,      NULL,       D_ULTRASSOM_ABDOME,     NumCell(200), NumCell(180)),
      \* blank patient, unparsable gross value
      Row(NULL,   Jan,      "CORTESIA", D_ULTRASSOM_ABDOME,     TextCell,     NumCell(180)),
      \* blank exam, unparsable gross and net value
      Row("Bia",  Feb,      "CORTESIA", ExameNaN,               TextCell,     EmptyCell) }

RECURSIVE SeqsUpTo(_, _)
SeqsUpTo(S, n) ==
    IF n = 0 THEN {<<>>}
    ELSE LET shorter == SeqsUpTo(S, n - 1)
         IN  shorter \cup {Append(q, x) : q \in shorter, x \in S}

Tables == SeqsUpTo(RowSet, MaxRows)

(***************************************************************************)
(* processar_dados: normalisation                                          *)
(***************************************************************************)
\* a faulty variant: the filter is missing, every row is kept
RemoveHeaderNone(rows) == rows

\* df[df['Nome_Paciente'] != 'Nome do Paciente']  (NaN != label is True)
RemoveHeader(rows) == SelectSeq(rows, LAMBDA r : r.Nome_Paciente # HeaderLabel)

\* the type conversions and the two derived columns
Normalize(rows) ==
    [i \in DOMAIN rows |->
        [Nome_Paciente |-> rows[i].Nome_Paciente,
         Data_Realizacao |-> to_datetime(rows[i].Data_Realizacao),
         Convenio |-> rows[i].Convenio,
         Exame_Realizado |-> rows[i].Exame_Realizado,
         Valor_Exame |-> to_numeric(rows[i].Valor_Exame),
         RDF |-> to_numeric(rows[i].RDF),
         Modalidade |-> categorizar_modalidade(rows[i].Exame_Realizado),
         Ano_Mes |-> Ano_Mes(to_datetime(rows[i].Data_Realizacao))]]

DataFrame(rows) == Normalize(RemoveHeader(rows))

(***************************************************************************)
(* pandas groupby / agg                                                    *)
(***************************************************************************)
\* Every string that can be a group key, in Python's string order
StrOrder == <<"2024-01", "2024-02", "CORTESIA", "Convênio",
              "Densitometria", "Doppler", "InsCo", "Mamografia", "NaT",
              "Outros", "Raio X", "Ultrassonografia">>

Rank(s) == CHOOSE i \in DOMAIN StrOrder : StrOrder[i] = s

KeyLess(a, b) ==
    \E k \in DOMAIN a :
        /\ \A j \in 1..(k - 1) : a[j] = b[j]
        /\ Rank(a[k]) < Rank(b[k])

RECURSIVE SortKeys(_)
SortKeys(S) ==
    IF S = {} THEN <<>>
    ELSE LET m == CHOOSE x \in S : \A y \in S \ {x} : KeyLess(x, y)
         IN  <<m>> \o SortKeys(S \ {m})

KeyOf(r, by) == [k \in DOMAIN by |-> r[by[k]]]

\* groupby(by) with the defaults sort=True, dropna=True: the keys of the
\* groups, in key order; a row with NaN in a key column is in no group
GroupKeys(df, by) ==
    SortKeys({ KeyOf(df[i], by) : i \in { j \in DOMAIN df :
                                           \A k \in DOMAIN by : notna(df[j][by[k]]) } })

Members(df, by, key) == SelectSeq(df, LAMBDA r : KeyOf(r, by) = key)

RECURSIVE SumSeq(_)
SumSeq(q) == IF q = <<>> THEN 0 ELSE Head(q) + SumSeq(Tail(q))

\* agg 'count': the non-NaN values of the column
Count(g, col) == Len(SelectSeq(g, LAMBDA r : notna(r[col])))

\* agg 'sum': NaN is skipped, an all-NaN group sums to 0
Sum(g, col) == SumSeq([i \in DOMAIN g |-> IF g[i][col].nan THEN 0 ELSE g[i][col].v])

(***************************************************************************)
(* Percentages, in hundredths: "num" with the rounded value, or what the   *)
(* float division gave for a zero denominator.                             *)
(***************************************************************************)
Pct(h) == [k |-> "num", v |-> h]
PctNaN == [k |-> "nan", v |-> 0]
PctInf == [k |-> "inf", v |-> 0]
PctNegInf == [k |-> "-inf", v |-> 0]
PctNull == [k |-> "null", v |-> 0]

\* n / d * 100 rounded to 2 decimals by Series.round(2) (half to even), d > 0
RoundHalfEven(n, d) ==
    LET f == (n * 10000) \div d
        r == (n * 10000) % d
    IN  IF 2 * r < d THEN f
        ELSE IF 2 * r > d THEN f + 1
        ELSE IF f % 2 = 0 THEN f ELSE f + 1

\* n / d * 100 as Number.prototype.toFixed(2) prints it (half away from 0), d > 0
ToFixed2(n, d) ==
    LET a == IF n < 0 THEN -n ELSE n
        f == (a * 10000) \div d
        r == (a * 10000) % d
        m == IF 2 * r >= d THEN f + 1 ELSE f
    IN  IF n < 0 THEN -m ELSE m

\* (a / b * 100).round(2) on float Series: no guard for b = 0
PyPercent(a, b) ==
    IF b = 0
    THEN (IF a = 0 THEN PctNaN ELSE IF a > 0 THEN PctInf ELSE PctNegInf)
    ELSE IF b > 0 THEN Pct(RoundHalfEven(a, b)) ELSE Pct(RoundHalfEven(-a, -b))

(***************************************************************************)
(* processar_dados: the five views                                         *)
(***************************************************************************)
ByMesConvenioModalidade == <<"Ano_Mes", "Convenio", "Modalidade">>
ByMes == <<"Ano_Mes">>
ByConvenio == <<"Convenio">>
ByModalidade == <<"Modalidade">>
ByMesModalidade == <<"Ano_Mes", "Modalidade">>

exames_mes_convenio_modalidade(df) ==
    LET keys == GroupKeys(df, ByMesConvenioModalidade)
        rows == [i \in DOMAIN keys |->
                    LET g == Members(df, ByMesConvenioModalidade, keys[i])
                    IN  [Mes |-> keys[i][1], Convenio |-> keys[i][2],
                         Modalidade |-> keys[i][3],
                         Qtd |-> Count(g, "Nome_Paciente"),
                         Receita_Bruta |-> Sum(g, "Valor_Exame"),
                         Receita_Liquida |-> Sum(g, "RDF")]]
    IN  SelectSeq(rows, LAMBDA x : notna(x.Mes))

resumo_mensal(df) ==
    LET keys == GroupKeys(df, ByMes)
        rows == [i \in DOMAIN keys |->
                    LET g == Members(df, ByMes, keys[i])
                    IN  [Mes |-> keys[i][1],
                         Qtd_Exames |-> Count(g, "Nome_Paciente"),
                         Receita_Bruta |-> Sum(g, "Valor_Exame"),
                         Receita_Liquida |-> Sum(g, "RDF"),
                         Percentual_Lucro |->
                             PyPercent(Sum(g, "RDF"), Sum(g, "Valor_Exame"))]]
    IN  SelectSeq(rows, LAMBDA x : notna(x.Mes))

\* dist_convenio before sort_values
dist_convenio_grouped(df) ==
    LET keys == GroupKeys(df, ByConvenio)
        qtd(i) == Count(Members(df, ByConvenio, keys[i]), "Nome_Paciente")
        total == SumSeq([i \in DOMAIN keys |-> qtd(i)])
    IN  [i \in DOMAIN keys |->
            LET g == Members(df, ByConvenio, keys[i])
            IN  [Convenio |-> keys[i][1],
                 Qtd |-> qtd(i),
                 Receita_Bruta |-> Sum(g, "Valor_Exame"),
                 Receita_Liquida |-> Sum(g, "RDF"),
                 Percentual |-> PyPercent(qtd(i), total)]]

\* dist_modalidade before sort_values
dist_modalidade_grouped(df) ==
    LET keys == GroupKeys(df, ByModalidade)
        qtd(i) == Count(Members(df, ByModalidade, keys[i]), "Nome_Paciente")
        total == SumSeq([i \in DOMAIN keys |-> qtd(i)])
    IN  [i \in DOMAIN keys |->
            LET g == Members(df, ByModalidade, keys[i])
            IN  [Modalidade |-> keys[i][1],
                 Qtd |-> qtd(i),
                 Receita_Bruta |-> Sum(g, "Valor_Exame"),
                 Receita_Liquida |-> Sum(g, "RDF"),
                 Percentual |-> PyPercent(qtd(i), total)]]

dist_modalidade_mes(df) ==
    LET keys == GroupKeys(df, ByMesModalidade)
        rows == [i \in DOMAIN keys |->
                    [Mes |-> keys[i][1], Modalidade |-> keys[i][2],
                     Qtd |-> Count(Members(df, ByMesModalidade, keys[i]),
                                   "Nome_Paciente")]]
    IN  SelectSeq(rows, LAMBDA x : notna(x.Mes))

Arrangements(n) ==
    { p \in [1..n -> 1..n] : \A i, j \in 1..n : i # j => p[i] # p[j] }

\* a faulty variant: ascending=True
sort_values_asc(rows) ==
    { [i \in DOMAIN rows |-> rows[p[i]]] :
        p \in { q \in Arrangements(Len(rows)) :
                  \A i, j \in DOMAIN rows :
                      i < j => rows[q[i]].Qtd <= rows[q[j]].Qtd } }

\* sort_values('Qtd', ascending=False) with the default kind='quicksort',
\* which is not stable: every descending arrangement is a possible result
sort_values_desc(rows) ==
    { [i \in DOMAIN rows |-> rows[p[i]]] :
        p \in { q \in Arrangements(Len(rows)) :
                  \A i, j \in DOMAIN rows :
                      i < j => rows[q[i]].Qtd >= rows[q[j]].Qtd } }

\* datetime.now().strftime('%Y-%m-%d %H:%M:%S')
Clock == {"2024-03-01 23:00:00"}

\* every data_json processar_dados can return for the rows of the sheet
processar_dados(rows) ==
    LET df == DataFrame(rows)
    IN  { [exames_mes_convenio_modalidade |-> exames_mes_convenio_modalidade(df),
           resumo_mensal |-> resumo_mensal(df),
           dist_convenio |-> dc,
           dist_modalidade |-> dm,
           dist_modalidade_mes |-> dist_modalidade_mes(df),
           ultima_atualizacao |-> now] :
          dc \in sort_values_desc(dist_convenio_grouped(df)),
          dm \in sort_values_desc(dist_modalidade_grouped(df)),
          now \in Clock }

(***************************************************************************)
(* The page script                                                         *)
(***************************************************************************)
NoData == [none |-> TRUE]

\* JSON.stringify writes NaN and Infinity as null
JsonNumber(x) == IF x.k = "num" THEN x ELSE PctNull

\* JSON.parse(JSON.stringify(allData))
JsonClone(d) ==
    [d EXCEPT
        !.resumo_mensal = [i \in DOMAIN @ |->
            [@[i] EXCEPT !.Percentual_Lucro = JsonNumber(@)]],
        !.dist_convenio = [i \in DOMAIN @ |->
            [@[i] EXCEPT !.Percentual = JsonNumber(@)]],
        !.dist_modalidade = [i \in DOMAIN @ |->
            [@[i] EXCEPT !.Percentual = JsonNumber(@)]]]

RECURSIVE Distinct(_)
\* [...new Set(q)]: the distinct values in order of first occurrence
Distinct(q) ==
    IF q = <<>> THEN <<>>
    ELSE <<Head(q)>> \o SelectSeq(Distinct(Tail(q)), LAMBDA x : x # Head(q))

Range(q) == { q[i] : i \in DOMAIN q }

\* the controls after preencherFiltros: nothing selected, options from allData
preencherFiltros(all) ==
    [filterConvenio |-> "",
     filterMes |-> "",
     checked |-> {},
     opConvenio |-> Distinct([i \in DOMAIN all.exames_mes_convenio_modalidade |->
                                 all.exames_mes_convenio_modalidade[i].Convenio]),
     opModalidade |-> Distinct([i \in DOMAIN all.dist_modalidade |->
                                 all.dist_modalidade[i].Modalidade]),
     opMes |-> SelectSeq(Distinct([i \in DOMAIN all.resumo_mensal |->
                                 all.resumo_mensal[i].Mes]),
                         LAMBDA m : m # "")]

\* a faulty variant: an empty modality selection matches no row
aplicarFiltrosEmptyIsNone(all, ctl) ==
    LET fd == JsonClone(all)
        r1 == IF ctl.filterConvenio # ""
              THEN SelectSeq(fd.exames_mes_convenio_modalidade,
                             LAMBDA x : x.Convenio = ctl.filterConvenio)
              ELSE fd.exames_mes_convenio_modalidade
        r2 == IF ctl.filterMes # ""
              THEN SelectSeq(r1, LAMBDA x : x.Mes = ctl.filterMes)
              ELSE r1
        r3 == SelectSeq(r2, LAMBDA x : x.Modalidade \in ctl.checked)
    IN  [fd EXCEPT !.exames_mes_convenio_modalidade = r3]

\* aplicarFiltros up to its call of atualizarDashboard: the new filteredData
aplicarFiltros(all, ctl) ==
    LET fd == JsonClone(all)
        r1 == IF ctl.filterConvenio # ""
              THEN SelectSeq(fd.exames_mes_convenio_modalidade,
                             LAMBDA x : x.Convenio = ctl.filterConvenio)
              ELSE fd.exames_mes_convenio_modalidade
        r2 == IF ctl.filterMes # ""
              THEN SelectSeq(r1, LAMBDA x : x.Mes = ctl.filterMes)
              ELSE r1
        r3 == IF ctl.checked # {}
              THEN SelectSeq(r2, LAMBDA x : x.Modalidade \in ctl.checked)
              ELSE r2
    IN  [fd EXCEPT !.exames_mes_convenio_modalidade = r3]

\* the four values atualizarKPIs computes (their display formatting is left out)
atualizarKPIs(fd) ==
    LET dados == fd.exames_mes_convenio_modalidade
        qtd == SumSeq([i \in DOMAIN dados |-> dados[i].Qtd])
        bruta == SumSeq([i \in DOMAIN dados |-> dados[i].Receita_Bruta])
        liquida == SumSeq([i \in DOMAIN dados |-> dados[i].Receita_Liquida])
    IN  [qtd |-> qtd, bruta |-> bruta, liquida |-> liquida,
         lucro |-> IF bruta > 0 THEN Pct(ToFixed2(liquida, bruta)) ELSE Pct(0)]

\* What the window property named after a chart holds, and so what its canvas
\* shows.  window.chartMes is undefined until line 677 assigns it (the canvas
\* of that chart has the id chartExamesMes).  chartConvenio, chartModalidade
\* and chartModalidadeQtd are also the ids of the canvases of lines 512, 521
\* and 527, and a window property that was never assigned resolves to the
\* element with that id: until a Chart is assigned they hold the canvas.
NoChart == [kind |-> "undefined", labels |-> <<>>, data |-> <<>>]
CanvasElement == [kind |-> "canvas", labels |-> <<>>, data |-> <<>>]
Chart(labels, data) == [kind |-> "chart", labels |-> labels, data |-> data]

\* atualizarGraficos from the charts in window: the charts after it, and the
\* exception it raised.  if (window.c) window.c.destroy() calls destroy on
\* whatever truthy value window.c holds; a canvas element has no such method
\* (TypeError), and the statements after it do not run.
atualizarGraficos(all, fd, window) ==
    LET dados == fd.exames_mes_convenio_modalidade
        meses == Distinct([i \in DOMAIN dados |-> dados[i].Mes])
        examesPosMes == [i \in DOMAIN meses |->
            SumSeq([j \in DOMAIN dados |->
                       IF dados[j].Mes = meses[i] THEN dados[j].Qtd ELSE 0])]
        convenioDados == SelectSeq(all.dist_convenio, LAMBDA x : x.Convenio # "CORTESIA")
        modalidadeDados == SelectSeq(all.dist_modalidade, LAMBDA x : x.Modalidade # "Outros")
        w1 == [window EXCEPT !.chartMes = Chart(meses, examesPosMes)]
        w2 == [w1 EXCEPT !.chartConvenio =
                  Chart([i \in DOMAIN convenioDados |-> convenioDados[i].Convenio],
                        [i \in DOMAIN convenioDados |-> convenioDados[i].Qtd])]
        w3 == [w2 EXCEPT !.chartModalidade =
                  Chart([i \in DOMAIN modalidadeDados |-> modalidadeDados[i].Modalidade],
                        [i \in DOMAIN modalidadeDados |-> modalidadeDados[i].Qtd])]
        w4 == [w3 EXCEPT !.chartModalidadeQtd =
                  Chart([i \in DOMAIN modalidadeDados |-> modalidadeDados[i].Modalidade],
                        [i \in DOMAIN modalidadeDados |-> modalidadeDados[i].Qtd])]
    IN  IF w1.chartConvenio.kind = "canvas" THEN [raised |-> "TypeError", window |-> w1]
        ELSE IF w2.chartModalidade.kind = "canvas" THEN [raised |-> "TypeError", window |-> w2]
        ELSE IF w3.chartModalidadeQtd.kind = "canvas" THEN [raised |-> "TypeError", window |-> w3]
        ELSE [raised |-> "", window |-> w4]

\* the rows of the detail table
atualizarTabela(fd) == fd.exames_mes_convenio_modalidade

\* the modality cards
atualizarCards(all) ==
    LET mods == SelectSeq(all.dist_modalidade, LAMBDA x : x.Modalidade # "Outros")
    IN  [i \in DOMAIN mods |->
            [Modalidade |-> mods[i].Modalidade, Qtd |-> mods[i].Qtd,
             Receita_Bruta |-> mods[i].Receita_Bruta,
             Receita_Liquida |-> mods[i].Receita_Liquida]]

\* the widgets of the page as written by gerar_html, before any script ran
StaticPage ==
    [kpi |-> [qtd |-> 0, bruta |-> 0, liquida |-> 0, lucro |-> Pct(0)],
     graficos |-> [chartMes |-> NoChart, chartConvenio |-> CanvasElement,
                   chartModalidade |-> CanvasElement,
                   chartModalidadeQtd |-> CanvasElement],
     tabela |-> <<>>,
     cards |-> <<>>]

\* atualizarDashboard from the widgets `before`: its four steps in order, no
\* try / catch; an exception in a step ends the pass and leaves the handler
atualizarDashboard(all, fd, before) ==
    LET s1 == [before EXCEPT !.kpi = atualizarKPIs(fd)]
        g == atualizarGraficos(all, fd, before.graficos)
        s2 == [s1 EXCEPT !.graficos = g.window]
    IN  IF g.raised # ""
        THEN [uncaught |-> g.raised, widgets |-> s2]
        ELSE [uncaught |-> "",
              widgets |-> [s2 EXCEPT !.tabela = atualizarTabela(fd),
                                     !.cards = atualizarCards(all)]]

\* const allData = {data_json}: the f-string writes the dict as Python prints
\* it (data_js of line 175 is not used).  nan and inf are not JavaScript
\* names: with one of them in the literal the statement raises
\* ReferenceError and the script stops there.
Evaluates(d) ==
    /\ \A i \in DOMAIN d.resumo_mensal : d.resumo_mensal[i].Percentual_Lucro.k = "num"
    /\ \A i \in DOMAIN d.dist_convenio : d.dist_convenio[i].Percentual.k = "num"
    /\ \A i \in DOMAIN d.dist_modalidade : d.dist_modalidade[i].Percentual.k = "num"

(***************************************************************************)
(* main, and the page opened on the published file                         *)
(***************************************************************************)
Drives == {"ok", "unavailable", "malformed"}

BatchInit ==
    /\ drive \in Drives
    /\ table \in (IF drive = "ok" THEN Tables ELSE {<<>>})
    /\ pc = "start"
    /\ file_content = NoData
    /\ data_json = NoData
    /\ dashboard = [state |-> "previous", data |-> NoData]
    /\ exit_code = -1

PageInit ==
    /\ allData = NoData
    /\ filteredData = NoData
    /\ controls = NoData
    /\ rendered = NoData
    /\ uncaught = ""

Init ==
    /\ BatchInit
    /\ PageInit
    /\ exame_in = ExameNaN
    /\ modalidade_out = ""

\* except Exception as e: print, exit(1)
Abort ==
    /\ pc' = "error"
    /\ exit_code' = 1

\* Etapa 1: baixar_excel_google_drive returns the workbook or raises
Baixar ==
    /\ pc = "start"
    /\ IF drive = "unavailable"
       THEN Abort /\ UNCHANGED file_content
       ELSE pc' = "downloaded" /\ file_content' = table /\ UNCHANGED exit_code
    /\ UNCHANGED <<drive, table, data_json, dashboard, pageVars, classVars>>

\* Etapa 2: processar_dados returns data_json, or read_excel / the column
\* assignment raises on a workbook without the sheet or the nine columns
Processar ==
    /\ pc = "downloaded"
    /\ IF drive = "malformed"
       THEN Abort /\ UNCHANGED data_json
       ELSE /\ \E dj \in processar_dados(file_content) : data_json' = dj
            /\ pc' = "processed"
            /\ UNCHANGED exit_code
    /\ UNCHANGED <<drive, table, file_content, dashboard, pageVars, classVars>>

\* a faulty variant of main: the page is written from whatever there is,
\* also after a stage raised
GerarHtmlAlways ==
    /\ pc \in {"processed", "error"}
    /\ dashboard.state = "previous"
    /\ dashboard' = [state |-> "new", data |-> data_json]
    /\ pc' = IF pc = "error" THEN "error" ELSE "done"
    /\ exit_code' = IF pc = "error" THEN 1 ELSE 0
    /\ UNCHANGED <<drive, table, file_content, data_json, pageVars, classVars>>

\* Etapa 3: gerar_html opens dashboard.html for writing (truncating it) and
\* writes the page; a failing write leaves the truncated file
GerarHtml ==
    /\ pc = "processed"
    /\ \/ /\ dashboard' = [state |-> "new", data |-> data_json]
          /\ pc' = "done"
          /\ exit_code' = 0
       \/ /\ dashboard' = [state |-> "partial", data |-> NoData]
          /\ Abort
    /\ UNCHANGED <<drive, table, file_content, data_json, pageVars, classVars>>

\* The published page is opened: the script runs, then DOMContentLoaded calls
\* preencherFiltros and atualizarDashboard.  When the literal of line 564 does
\* not evaluate, the static page stays and no handler can read allData.
PageLoad ==
    /\ dashboard.state = "new"
    /\ rendered = NoData
    /\ IF Evaluates(dashboard.data)
       THEN LET pass == atualizarDashboard(dashboard.data, JsonClone(dashboard.data),
                                           StaticPage)
            IN  /\ allData' = dashboard.data
                /\ filteredData' = JsonClone(dashboard.data)
                /\ controls' = preencherFiltros(dashboard.data)
                /\ rendered' = pass.widgets
                /\ uncaught' = pass.uncaught
       ELSE /\ rendered' = StaticPage
            /\ uncaught' = "ReferenceError"
            /\ UNCHANGED <<allData, filteredData, controls>>
    /\ UNCHANGED <<batchVars, classVars>>

\* a faulty variant of aplicarFiltros: the filters are applied to the rows
\* left by the previous pass, not to a fresh copy of allData
RefilterChained(ctl) ==
    LET fd == aplicarFiltros(filteredData, ctl)
        pass == atualizarDashboard(allData, fd, rendered)
    IN  /\ controls' = ctl
        /\ filteredData' = fd
        /\ rendered' = pass.widgets
        /\ uncaught' = pass.uncaught
        /\ UNCHANGED <<allData, batchVars, classVars>>

\* a faulty variant of aplicarFiltros: the filters are applied to allData
\* itself, without the copy
RefilterInPlace(ctl) ==
    LET fd == aplicarFiltros(allData, ctl)
        pass == atualizarDashboard(fd, fd, rendered)
    IN  /\ controls' = ctl
        /\ allData' = [allData EXCEPT !.exames_mes_convenio_modalidade =
                                         fd.exames_mes_convenio_modalidade]
        /\ filteredData' = fd
        /\ rendered' = pass.widgets
        /\ uncaught' = pass.uncaught
        /\ UNCHANGED <<batchVars, classVars>>

\* a change of one control fires aplicarFiltros
Refilter(ctl) ==
    LET fd == aplicarFiltros(allData, ctl)
        pass == atualizarDashboard(allData, fd, rendered)
    IN  /\ controls' = ctl
        /\ filteredData' = fd
        /\ rendered' = pass.widgets
        /\ uncaught' = pass.uncaught
        /\ UNCHANGED <<allData, batchVars, classVars>>

ChangeConvenio ==
    /\ allData # NoData
    /\ \E c \in {""} \cup Range(controls.opConvenio) :
          /\ c # controls.filterConvenio
          /\ Refilter([controls EXCEPT !.filterConvenio = c])

ChangeMes ==
    /\ allData # NoData
    /\ \E m \in {""} \cup Range(controls.opMes) :
          /\ m # controls.filterMes
          /\ Refilter([controls EXCEPT !.filterMes = m])

ToggleModalidade ==
    /\ allData # NoData
    /\ \E m \in Range(controls.opModalidade) :
          Refilter([controls EXCEPT
                       !.checked = IF m \in @ THEN @ \ {m} ELSE @ \cup {m}])

limparFiltros ==
    /\ allData # NoData
    /\ controls' = [controls EXCEPT !.filterConvenio = "", !.filterMes = "",
                                    !.checked = {}]
    /\ filteredData' = JsonClone(allData)
    /\ LET pass == atualizarDashboard(allData, JsonClone(allData), rendered)
       IN  rendered' = pass.widgets /\ uncaught' = pass.uncaught
    /\ UNCHANGED <<allData, batchVars, classVars>>

Next ==
    \/ Baixar
    \/ Processar
    \/ GerarHtml
    \/ PageLoad
    \/ ChangeConvenio
    \/ ChangeMes
    \/ ToggleModalidade
    \/ limparFiltros

Spec == Init /\ [][Next]_vars

(***************************************************************************)
(* categorizar_modalidade on its own, over composed descriptions           *)
(***************************************************************************)
Fragments ==
    {W_RX, W_DOPPLER, W_SP, W_RAIO, W_X, W_HYPHEN, W_ECO, W_mamografia,
     W_ULTRASSOM, W_VASCULAR, W_DENSITOMETRIA, W_ULTRASSONOGRAFIA}

RECURSIVE Concat(_)
Concat(q) == IF q = <<>> THEN <<>> ELSE Head(q) \o Concat(Tail(q))

Descriptions ==
    {ExameNaN} \cup { Exame(Concat(q)) : q \in SeqsUpTo(Fragments, MaxFrags) }

ClassifyInit ==
    /\ exame_in \in Descriptions
    /\ modalidade_out = ""
    /\ drive = "unavailable"
    /\ table = <<>>
    /\ pc = "start"
    /\ file_content = NoData
    /\ data_json = NoData
    /\ dashboard = [state |-> "previous", data |-> NoData]
    /\ exit_code = -1
    /\ PageInit

\* df['Exame_Realizado'].apply(categorizar_modalidade), one cell
Categorizar ==
    /\ modalidade_out = ""
    /\ modalidade_out' = categorizar_modalidade(exame_in)
    /\ UNCHANGED <<exame_in, batchVars, pageVars>>

ClassifyNext == Categorizar

SpecClassify == ClassifyInit /\ [][ClassifyNext]_vars

(***************************************************************************)
(* Properties                                                              *)
(***************************************************************************)
Processed == data_json # NoData
Loaded == allData # NoData
NoFilter ==
    controls.filterConvenio = "" /\ controls.filterMes = "" /\ controls.checked = {}

Col(view, col) == SumSeq([i \in DOMAIN view |-> view[i][col]])

\* the value of column col in the row of view whose key columns equal key, 0 if none
Lookup(view, keycols, key, col) ==
    LET m == SelectSeq(view, LAMBDA x : \A k \in DOMAIN keycols : x[keycols[k]] = key[k])
    IN  IF m = <<>> THEN 0 ELSE m[1][col]

\* q without its i-th element
Without(q, i) == SubSeq(q, 1, i - 1) \o SubSeq(q, i + 1, Len(q))

\* the records that satisfy the filter of the controls
Matching(df, ctl) ==
    SelectSeq(df, LAMBDA r :
        /\ ctl.filterConvenio = "" \/ r.Convenio = ctl.filterConvenio
        /\ ctl.filterMes = "" \/ r.Ano_Mes = ctl.filterMes
        /\ ctl.checked = {} \/ r.Modalidade \in ctl.checked)

\* the totals of the batch aggregation of a record set: resumo_mensal summed
\* over its months
BatchTotals(df) ==
    LET rm == resumo_mensal(df)
    IN  [qtd |-> Col(rm, "Qtd_Exames"),
         bruta |-> Col(rm, "Receita_Bruta"),
         liquida |-> Col(rm, "Receita_Liquida")]

\* C1: with no filter active, the totals of atualizarKPIs (count, gross sum,
\* net sum) equal the totals of resumo_mensal summed over all its months.
C1_UnfilteredTotalsEqualMonthly ==
    (Loaded /\ NoFilter) =>
        /\ rendered.kpi.qtd = Col(allData.resumo_mensal, "Qtd_Exames")
        /\ rendered.kpi.bruta = Col(allData.resumo_mensal, "Receita_Bruta")
        /\ rendered.kpi.liquida = Col(allData.resumo_mensal, "Receita_Liquida")

\* C2: for every filter, the totals aplicarFiltros and atualizarKPIs derive
\* from the fine-grained view equal the totals of the batch aggregation run on
\* the records matching the filter: count, gross sum and net sum, and the
\* profit percentage wherever the batch run yields one (the matching records
\* lie in one month, whose Percentual_Lucro it is).
C2_RecomputeEqualsBatch ==
    Loaded =>
        LET batch == resumo_mensal(Matching(DataFrame(table), controls))
            totals == BatchTotals(Matching(DataFrame(table), controls))
        IN  /\ rendered.kpi.qtd = totals.qtd
            /\ rendered.kpi.bruta = totals.bruta
            /\ rendered.kpi.liquida = totals.liquida
            /\ Len(batch) = 1 => rendered.kpi.lucro = batch[1].Percentual_Lucro

\* C3: the sum of Qtd over the fine-grained view equals the number of records
\* whose exam date parsed, whatever their other fields are.
C3_FineGrainedCountsDatedRecords ==
    Processed =>
        Col(data_json.exames_mes_convenio_modalidade, "Qtd")
            = Len(SelectSeq(DataFrame(table), LAMBDA r : ~r.Data_Realizacao.nat))

Dated(df) == SelectSeq(df, LAMBDA r : ~r.Data_Realizacao.nat)

\* C4: a record whose date cannot be parsed contributes to no row of the three
\* month-keyed views (they are what the dated records alone give), and adds 1
\* to the Qtd of its payer in dist_convenio and of its modality in
\* dist_modalidade.
C4_UndatedOnlyInPayerAndModalityViews ==
    Processed =>
        LET df == DataFrame(table)
        IN  /\ data_json.exames_mes_convenio_modalidade
                   = exames_mes_convenio_modalidade(Dated(df))
            /\ data_json.resumo_mensal = resumo_mensal(Dated(df))
            /\ data_json.dist_modalidade_mes = dist_modalidade_mes(Dated(df))
            /\ \A i \in DOMAIN df :
                  df[i].Data_Realizacao.nat =>
                      /\ Lookup(data_json.dist_convenio, ByConvenio,
                                <<df[i].Convenio>>, "Qtd")
                           = Lookup(dist_convenio_grouped(Without(df, i)), ByConvenio,
                                    <<df[i].Convenio>>, "Qtd") + 1
                      /\ Lookup(data_json.dist_modalidade, ByModalidade,
                                <<df[i].Modalidade>>, "Qtd")
                           = Lookup(dist_modalidade_grouped(Without(df, i)), ByModalidade,
                                    <<df[i].Modalidade>>, "Qtd") + 1

\* C5: every percentage field is 0 when its denominator is 0: Percentual_Lucro
\* of a month with gross sum 0, Percentual of dist_convenio and dist_modalidade
\* with total count 0, and the profit percentage of atualizarKPIs with
\* filtered gross sum 0.
C5_ZeroDenominatorGivesZero ==
    /\ Processed =>
          /\ \A i \in DOMAIN data_json.resumo_mensal :
                data_json.resumo_mensal[i].Receita_Bruta = 0
                    => data_json.resumo_mensal[i].Percentual_Lucro = Pct(0)
          /\ \A i \in DOMAIN data_json.dist_convenio :
                Col(data_json.dist_convenio, "Qtd") = 0
                    => data_json.dist_convenio[i].Percentual = Pct(0)
          /\ \A i \in DOMAIN data_json.dist_modalidade :
                Col(data_json.dist_modalidade, "Qtd") = 0
                    => data_json.dist_modalidade[i].Percentual = Pct(0)
    /\ Loaded => (rendered.kpi.bruta = 0 => rendered.kpi.lucro = Pct(0))

(***************************************************************************)
(* C6: the classifier                                                      *)
(***************************************************************************)
\* the rule table as the claim lists it
RuleOrder ==
    << <<W_MAMOGRAFIA, "Mamografia">>, <<W_DENSITOMETRIA, "Densitometria">>,
       <<W_ULTRASSONOGRAFIA, "Ultrassonografia">>, <<W_ULTRASSOM, "Ultrassonografia">>,
       <<W_RAIO \o <<" ", "X">>, "Raio X">>, <<W_RAIO \o <<"-", "X">>, "Raio X">>,
       <<W_RX, "Raio X">>, <<W_DOPPLER, "Doppler">>,
       <<W_DOPPLER \o <<" ">> \o W_VASCULAR, "Doppler">>,
       <<W_ECO \o W_DOPPLER, "Doppler">> >>

SixModalities ==
    {"Mamografia", "Densitometria", "Ultrassonografia", "Raio X", "Doppler", "Outros"}

\* sub occurs in s, character by character
Occurs(sub, s) ==
    \E off \in 0..(Len(s) - Len(sub)) : \A j \in DOMAIN sub : s[off + j] = sub[j]

\* the indexes of the rules whose substring occurs in the uppercased text u
HitsIn(u) == { i \in DOMAIN RuleOrder : Occurs(RuleOrder[i][1], u) }

Hits(e) == HitsIn(upper(e.s))

Called == modalidade_out # ""

\* C6: categorizar_modalidade returns the modality of the first rule, in table
\* order, whose substring occurs in the uppercased description, and 'Outros'
\* for a null or blank description or one no rule matches; between the RX rule
\* and the DOPPLER rule the RX rule wins; the result is one of the six
\* modalities.
C6_FirstMatchingRuleWins ==
    Called =>
        LET hits == Hits(exame_in)
            u == upper(exame_in.s)
        IN  /\ modalidade_out \in SixModalities
            /\ (exame_in.na \/ exame_in.s = <<>> \/ hits = {})
                  => modalidade_out = "Outros"
            /\ (~exame_in.na /\ hits # {}) =>
                  LET first == CHOOSE i \in hits : \A j \in hits : i <= j
                  IN  modalidade_out = RuleOrder[first][2]
            /\ (~exame_in.na /\ Occurs(W_RX, u) /\ Occurs(W_DOPPLER, u))
                  => /\ modalidade_out # "Doppler"
                     /\ (\A i \in 1..4 : i \notin hits) => modalidade_out = "Raio X"

\* a description with RX and DOPPLER, and nothing else that matches, was classified
C6_Witness ==
    /\ Called
    /\ ~exame_in.na
    /\ Occurs(W_RX, upper(exame_in.s))
    /\ Occurs(W_DOPPLER, upper(exame_in.s))
    /\ \A i \in 1..4 : i \notin Hits(exame_in)
    /\ modalidade_out = "Raio X"

(***************************************************************************)
(* C7: rows with unparsable money                                          *)
(***************************************************************************)
KeyNotNa(r, by) == \A k \in DOMAIN by : notna(r[by[k]])

\* what one row adds to column col of its group in a view: the value with the
\* row (read from `with`) minus the value without it
Adds(with, without, cols, key, col) ==
    Lookup(with, cols, key, col) - Lookup(without, cols, key, col)

\* C7: a row whose Valor_Exame or RDF fails numeric parsing stays in the data:
\* it adds 1 to the count of every group it belongs to, in all five views, and
\* adds 0 to that group's sum of the field that is null.
C7_UnparsableMoneyRowStillCounts ==
    Processed =>
        LET df == DataFrame(table)
        IN  \A i \in DOMAIN df :
              (df[i].Valor_Exame.nan \/ df[i].RDF.nan) =>
                LET r == df[i]
                    less == Without(df, i)
                    InView(with, without, by, cols, qtd, sums) ==
                        KeyNotNa(r, by) =>
                            /\ Adds(with, without, cols, KeyOf(r, by), qtd) = 1
                            /\ (sums /\ r.Valor_Exame.nan) =>
                                  Adds(with, without, cols, KeyOf(r, by),
                                       "Receita_Bruta") = 0
                            /\ (sums /\ r.RDF.nan) =>
                                  Adds(with, without, cols, KeyOf(r, by),
                                       "Receita_Liquida") = 0
                IN  /\ InView(data_json.exames_mes_convenio_modalidade,
                              exames_mes_convenio_modalidade(less),
                              ByMesConvenioModalidade,
                              <<"Mes", "Convenio", "Modalidade">>, "Qtd", TRUE)
                    /\ InView(data_json.resumo_mensal, resumo_mensal(less),
                              ByMes, <<"Mes">>, "Qtd_Exames", TRUE)
                    /\ InView(data_json.dist_convenio, dist_convenio_grouped(less),
                              ByConvenio, <<"Convenio">>, "Qtd", TRUE)
                    /\ InView(data_json.dist_modalidade, dist_modalidade_grouped(less),
                              ByModalidade, <<"Modalidade">>, "Qtd", TRUE)
                    /\ InView(data_json.dist_modalidade_mes, dist_modalidade_mes(less),
                              ByMesModalidade, <<"Mes", "Modalidade">>, "Qtd", FALSE)

(***************************************************************************)
(* C8: the filter                                                          *)
(***************************************************************************)
\* the rows of the snapshot's fine-grained view that pass all three predicates
Conjunctive(ctl) ==
    SelectSeq(allData.exames_mes_convenio_modalidade, LAMBDA x :
        /\ x.Convenio = ctl.filterConvenio \/ ctl.filterConvenio = ""
        /\ x.Mes = ctl.filterMes \/ ctl.filterMes = ""
        /\ x.Modalidade \in ctl.checked \/ ctl.checked = {})

\* C8: aplicarFiltros keeps exactly the fine-grained rows that satisfy the
\* payer, month and modality predicates together, and with no modality ticked
\* it keeps the rows it keeps with every modality ticked.
C8_FilterIsConjunctive ==
    Loaded =>
        /\ filteredData.exames_mes_convenio_modalidade = Conjunctive(controls)
        /\ aplicarFiltros(allData, [controls EXCEPT !.checked = {}])
             = aplicarFiltros(allData,
                   [controls EXCEPT !.checked = Range(controls.opModalidade)])

\* all three filters are set and some rows, not all, pass
C8_Witness ==
    /\ Loaded
    /\ controls.filterConvenio # ""
    /\ controls.filterMes # ""
    /\ controls.checked # {}
    /\ filteredData.exames_mes_convenio_modalidade # <<>>
    /\ Len(filteredData.exames_mes_convenio_modalidade)
         < Len(allData.exames_mes_convenio_modalidade)

(***************************************************************************)
(* C9: the order of the two distributions                                  *)
(***************************************************************************)
Descending(view) ==
    \A i, j \in DOMAIN view : i < j => view[i].Qtd >= view[j].Qtd

\* the position of the first record of df whose column col is key
FirstAt(df, col, key) ==
    CHOOSE i \in DOMAIN df : df[i][col] = key /\ \A j \in 1..(i - 1) : df[j][col] # key

TiesFirstSeen(view, df, col) ==
    \A i, j \in DOMAIN view :
        (i < j /\ view[i].Qtd = view[j].Qtd)
            => FirstAt(df, col, view[i][col]) < FirstAt(df, col, view[j][col])

\* C9 as claimed: both distributions are in descending Qtd order, groups of
\* equal Qtd in the order in which their keys first occur in the records.
C9_DescendingTiesFirstSeen ==
    Processed =>
        /\ Descending(data_json.dist_convenio)
        /\ Descending(data_json.dist_modalidade)
        /\ TiesFirstSeen(data_json.dist_convenio, DataFrame(table), "Convenio")
        /\ TiesFirstSeen(data_json.dist_modalidade, DataFrame(table), "Modalidade")

\* C9 amended: both distributions are in descending Qtd order.
C9_Descending ==
    Processed =>
        /\ Descending(data_json.dist_convenio)
        /\ Descending(data_json.dist_modalidade)

\* the sort moved a payer group ahead of one with a smaller key
C9_Witness ==
    /\ Processed
    /\ Len(data_json.dist_convenio) = 2
    /\ data_json.dist_convenio[1].Qtd > data_json.dist_convenio[2].Qtd
    /\ Rank(data_json.dist_convenio[1].Convenio)
         > Rank(data_json.dist_convenio[2].Convenio)

(***************************************************************************)
(* C10: publication                                                        *)
(***************************************************************************)
\* C10: dashboard.html is replaced only once the download and the aggregation
\* have both completed; when either fails nothing later runs, nothing is
\* written, the previous dashboard stays and main ends in exit(1).
C10_PublishOnlyAfterBothStages ==
    /\ dashboard.state # "previous" =>
          /\ drive = "ok"
          /\ file_content = table
          /\ ~Loaded => data_json \in processar_dados(table)
    /\ dashboard.state = "new" => (dashboard.data = data_json /\ pc = "done")
    /\ (pc = "error" /\ drive = "unavailable") =>
          /\ file_content = NoData /\ data_json = NoData
          /\ dashboard.state = "previous" /\ exit_code = 1
    /\ (pc = "error" /\ drive = "malformed") =>
          /\ data_json = NoData
          /\ dashboard.state = "previous" /\ exit_code = 1
    /\ drive # "ok" => (pc \notin {"processed", "done"} /\ ~Loaded)

\* the download succeeded and the aggregation raised
C10_Witness ==
    /\ pc = "error"
    /\ drive = "malformed"
    /\ file_content # NoData
    /\ exit_code = 1

(***************************************************************************)
(* C11: the repeated header row                                            *)
(***************************************************************************)
IsHeaderRow(r) == r.Nome_Paciente = HeaderLabel

\* C11: a row whose patient field equals the label 'Nome do Paciente' is
\* dropped before any grouping: the five views are what the table without
\* that row gives; every other row, a row with a blank patient included, is
\* among the records that are grouped.  (table and data_json do not change
\* once processar_dados has returned.)
C11_HeaderRowsDropped ==
    pc = "processed" =>
        LET df == DataFrame(table)
        IN  /\ \A i \in DOMAIN table :
                  IsHeaderRow(table[i]) => data_json \in processar_dados(Without(table, i))
            /\ \A i \in DOMAIN df : ~IsHeaderRow(df[i])
            /\ Len(df) = Cardinality({ i \in DOMAIN table : ~IsHeaderRow(table[i]) })
            /\ Cardinality({ i \in DOMAIN df : isna(df[i].Nome_Paciente) })
                 = Cardinality({ i \in DOMAIN table : isna(table[i].Nome_Paciente) })

\* a sheet with a header row and a row with a blank patient was processed
C11_Witness ==
    /\ pc = "processed"
    /\ \E i \in DOMAIN table : IsHeaderRow(table[i])
    /\ \E i \in DOMAIN table : isna(table[i].Nome_Paciente)
    /\ Len(DataFrame(table)) = 1

(***************************************************************************)
(* C12: every pass filters the snapshot                                    *)
(***************************************************************************)
\* C12: after every handler of the page the fine-grained rows of filteredData
\* are the rows of allData that pass the present values of the three controls,
\* whatever was selected before; with the controls cleared they are all the
\* rows of allData.
C12_FilteredFromSnapshot ==
    Loaded =>
        /\ filteredData.exames_mes_convenio_modalidade = Conjunctive(controls)
        /\ NoFilter => filteredData.exames_mes_convenio_modalidade
                          = allData.exames_mes_convenio_modalidade

\* two modalities are ticked, which takes two passes, the first of them
\* narrower: rows of both modalities are in filteredData
C12_Witness ==
    /\ Loaded
    /\ Cardinality(controls.checked) = 2
    /\ \A m \in controls.checked :
          \E i \in DOMAIN filteredData.exames_mes_convenio_modalidade :
              filteredData.exames_mes_convenio_modalidade[i].Modalidade = m

(***************************************************************************)
(* C13: what the charts are drawn from                                     *)
(***************************************************************************)
\* the fine-grained rows grouped by one column: its distinct values, and the
\* sum of Qtd of the rows of each
GroupedBy(rows, col) ==
    LET labels == Distinct([i \in DOMAIN rows |-> rows[i][col]])
    IN  Chart(labels,
              [i \in DOMAIN labels |->
                  SumSeq([j \in DOMAIN rows |->
                             IF rows[j][col] = labels[i] THEN rows[j].Qtd ELSE 0])])

\* the same labels with the same values, in any order
SameSeries(a, b) ==
    /\ a.kind = "chart" /\ b.kind = "chart"
    /\ Len(a.labels) = Len(b.labels)
    /\ \A i \in DOMAIN a.labels :
          \E j \in DOMAIN b.labels : a.labels[i] = b.labels[j] /\ a.data[i] = b.data[j]

\* C13: with a filter active, each of the four charts (exams per month, payer
\* distribution, modality distribution, modality quantity) shows the series
\* obtained by grouping the filtered fine-grained rows of filteredData.
C13_ChartsFromFilteredData ==
    (Loaded /\ ~NoFilter) =>
        LET rows == filteredData.exames_mes_convenio_modalidade
        IN  /\ SameSeries(rendered.graficos.chartMes, GroupedBy(rows, "Mes"))
            /\ SameSeries(rendered.graficos.chartConvenio, GroupedBy(rows, "Convenio"))
            /\ SameSeries(rendered.graficos.chartModalidade, GroupedBy(rows, "Modalidade"))
            /\ SameSeries(rendered.graficos.chartModalidadeQtd,
                          GroupedBy(rows, "Modalidade"))

(***************************************************************************)
(* C14: a render pass that fails                                           *)
(***************************************************************************)
\* C14: when a step of the pass of a filter change raises, the widgets are
\* what they were before that pass, and allData is what it was.
C14_FailedPassFallsBack ==
    [][(Loaded /\ uncaught' # "") => (rendered' = rendered /\ allData' = allData)]_vars

(***************************************************************************)
(* C15: the snapshot is only read                                          *)
(***************************************************************************)
\* C15: after any sequence of filter changes and render passes, allData (its
\* five views and its timestamp) is what the published page embedded and the
\* page load read, and no step of the page changes it.
C15_SnapshotNeverModified ==
    Loaded =>
        /\ allData = dashboard.data
        /\ allData.ultima_atualizacao = data_json.ultima_atualizacao
        /\ \A v \in {"exames_mes_convenio_modalidade", "resumo_mensal", "dist_convenio",
                      "dist_modalidade", "dist_modalidade_mes"} :
              allData[v] = data_json[v]

\* a filter pass has left fewer rows in filteredData than allData holds
C15_Witness ==
    /\ Loaded
    /\ ~NoFilter
    /\ uncaught # ""
    /\ Len(filteredData.exames_mes_convenio_modalidade)
         < Len(allData.exames_mes_convenio_modalidade)
    /\ allData = dashboard.data

(***************************************************************************)
(* C16: the payer and the modality distribution                            *)
(***************************************************************************)
\* C16: for every input table, the sum of Qtd over dist_convenio equals the
\* sum of Qtd over dist_modalidade of the same processar_dados run.
C16_DistributionsSameTotal ==
    Processed =>
        Col(data_json.dist_convenio, "Qtd") = Col(data_json.dist_modalidade, "Qtd")

====
